---------------------------- MODULE Spec2Model ----------------------------
(***************************************************************************)
(* A model of panzer's run-list construction and script-execution engine:  *)
(* option resolution (src/panzer/cli.py), command resolution, run-list     *)
(* building and script execution (src/panzer/panzer.py), and the setup     *)
(* checks (src/panzer/util.py).                                            *)
(*                                                                         *)
(* Python strings are modelled as sequences of one-character strings so    *)
(* that os.path.splitext, str.lower, os.path.join and os.path.basename are *)
(* computed character by character, as the library computes them.          *)
(***************************************************************************)
EXTENDS Integers, Sequences, FiniteSets, TLC

VARIABLES
    pc,           \* position of main(): the statement about to run
    exc,          \* the exception in flight ("none" when there is none)
    exit_status,  \* <<>> while running, <<n>> once the process has exited with n
    cli,          \* what argparse makes of sys.argv (input)
    stdin_bytes,  \* the bytes waiting on standard input (input)
    pandoc,       \* the wrapped tool: <<>> when missing, else its dotted version (input)
    metadata,     \* the document's metadata, doc.get_metadata() (input)
    fs,           \* the paths that exist on the filesystem
    stdin_reads,  \* how many times sys.stdin.buffer.read() ran
    tmp_written,  \* temporary files created, with the bytes written to each
    removed,      \* paths given to os.remove, in order
    pandoc_calls, \* the argument lists the wrapped tool was invoked with, in order
    dump_args_stdout, \* the lines `pandoc --dump-args` printed (<<>> before the call)
    options,      \* the options dictionary
    run_lists,    \* the run lists dictionary
    json_message, \* the message sent to scripts on stdin
    log,          \* the records handed to log(), in order
    attempts,     \* the commands run_scripts has attempted, in order
    started,      \* the steps of main() that have begun, in order
    rs_i,         \* run_scripts: index of the next command of the running list (0: not entered)
    ret           \* the value returned by the last call of a pure function

inputs == <<cli, stdin_bytes, pandoc, metadata>>
vars == <<pc, exc, exit_status, cli, stdin_bytes, pandoc, metadata, fs, stdin_reads,
          tmp_written, removed, pandoc_calls, dump_args_stdout, options, run_lists,
          json_message, log, attempts, started, rs_i, ret>>

-----------------------------------------------------------------------------
(* Bounds of the model *)

MaxTokens == 2      \* residual command-line tokens
MaxFilters == 2     \* --filter options on the command line
MaxItems == 2       \* commands a metadata field declares
MaxScripts == 2     \* commands of the longest list of scripts that is executed

-----------------------------------------------------------------------------
(* Strings *)

UpperChars == <<"A","B","C","D","E","F","G","H","I","J","K","L","M",
                "N","O","P","Q","R","S","T","U","V","W","X","Y","Z">>
LowerChars == <<"a","b","c","d","e","f","g","h","i","j","k","l","m",
                "n","o","p","q","r","s","t","u","v","w","x","y","z">>

\* str.lower(), one character
LowerChar(c) ==
    IF \E i \in DOMAIN UpperChars : UpperChars[i] = c
    THEN LowerChars[CHOOSE i \in DOMAIN UpperChars : UpperChars[i] = c]
    ELSE c

\* str.lower()
lower(s) == [i \in 1..Len(s) |-> LowerChar(s[i])]

\* str.rfind(c), 1-based; 0 when c does not occur
rfind(s, c) ==
    IF \E i \in 1..Len(s) : s[i] = c
    THEN CHOOSE i \in 1..Len(s) : s[i] = c /\ \A j \in (i+1)..Len(s) : s[j] # c
    ELSE 0

\* os.path.splitext(p): <<root, ext>>. The extension starts at the last dot
\* after the last separator, unless only dots precede it in the file name.
splitext(p) ==
    LET sepIndex == rfind(p, "/")
        dotIndex == rfind(p, ".")
    IN  IF dotIndex > sepIndex
           /\ \E k \in (sepIndex+1)..(dotIndex-1) : p[k] # "."
        THEN <<SubSeq(p, 1, dotIndex-1), SubSeq(p, dotIndex, Len(p))>>
        ELSE <<p, <<>> >>

\* os.path.basename(p)
basename(p) == SubSeq(p, rfind(p, "/") + 1, Len(p))

\* os.path.join(a, b): an absolute b discards a
join(a, b) ==
    IF Len(b) > 0 /\ b[1] = "/" THEN b
    ELSE IF a = <<>> \/ a[Len(a)] = "/" THEN a \o b
    ELSE a \o <<"/">> \o b

\* sequences over S of length at most n
SeqUpTo(S, n) == UNION {[1..k -> S] : k \in 0..n}

\* the elements of a sequence s that satisfy Keep, in order
RECURSIVE SelectIdx(_, _)
SelectIdx(s, keep) ==
    IF s = <<>> THEN <<>>
    ELSE IF Len(s) \in keep
         THEN Append(SelectIdx(SubSeq(s, 1, Len(s)-1), keep), s[Len(s)])
         ELSE SelectIdx(SubSeq(s, 1, Len(s)-1), keep)

-----------------------------------------------------------------------------
(* Constants of the program *)

REQUIRE_PANDOC_ATLEAST == <<1, 12, 1>>
DEFAULT_SUPPORT_DIR == <<"~","/",".","p","a","n","z","e","r">>
ADDITIVE_FIELDS == <<"preflight", "filter", "postprocess", "postflight", "cleanup">>

S_dash == <<"-">>
S_html == <<"h","t","m","l">>
S_pdf == <<".","p","d","f">>
S_panzer == <<"p","a","n","z","e","r">>
S_pandoc == <<"p","a","n","d","o","c">>
S_dump_args == <<"-","-","d","u","m","p","-","a","r","g","s">>
S_version == <<"-","-","v","e","r","s","i","o","n">>

pandoc_writer_mapping ==
    <<>>                                                 :> <<"m","a","r","k","d","o","w","n">> @@
    <<".","t","e","x">>                                  :> <<"l","a","t","e","x">> @@
    <<".","l","a","t","e","x">>                          :> <<"l","a","t","e","x">> @@
    <<".","l","t","x">>                                  :> <<"l","a","t","e","x">> @@
    <<".","c","o","n","t","e","x","t">>                  :> <<"c","o","n","t","e","x","t">> @@
    <<".","c","t","x">>                                  :> <<"c","o","n","t","e","x","t">> @@
    <<".","r","t","f">>                                  :> <<"r","t","f">> @@
    <<".","r","s","t">>                                  :> <<"r","s","t">> @@
    <<".","s","5">>                                      :> <<"s","5">> @@
    <<".","n","a","t","i","v","e">>                      :> <<"n","a","t","i","v","e">> @@
    <<".","j","s","o","n">>                              :> <<"j","s","o","n">> @@
    <<".","t","x","t">>                                  :> <<"m","a","r","k","d","o","w","n">> @@
    <<".","t","e","x","t">>                              :> <<"m","a","r","k","d","o","w","n">> @@
    <<".","m","d">>                                      :> <<"m","a","r","k","d","o","w","n">> @@
    <<".","m","a","r","k","d","o","w","n">>              :> <<"m","a","r","k","d","o","w","n">> @@
    <<".","t","e","x","t","i","l","e">>                  :> <<"t","e","x","t","i","l","e">> @@
    <<".","l","h","s">>                                  :> <<"m","a","r","k","d","o","w","n","+","l","h","s">> @@
    <<".","t","e","x","i">>                              :> <<"t","e","x","i","n","f","o">> @@
    <<".","t","e","x","i","n","f","o">>                  :> <<"t","e","x","i","n","f","o">> @@
    <<".","d","b">>                                      :> <<"d","o","c","b","o","o","k">> @@
    <<".","o","d","t">>                                  :> <<"o","d","t">> @@
    <<".","d","o","c","x">>                              :> <<"d","o","c","x">> @@
    <<".","e","p","u","b">>                              :> <<"e","p","u","b">> @@
    <<".","o","r","g">>                                  :> <<"o","r","g">> @@
    <<".","a","s","c","i","i","d","o","c">>              :> <<"a","s","c","i","i","d","o","c">> @@
    <<".","p","d","f">>                                  :> <<"l","a","t","e","x">> @@
    <<".","f","b","2">>                                  :> <<"f","b","2">> @@
    <<".","o","p","m","l">>                              :> <<"o","p","m","l">> @@
    <<".","1">>                                          :> <<"m","a","n">> @@
    <<".","2">>                                          :> <<"m","a","n">> @@
    <<".","3">>                                          :> <<"m","a","n">> @@
    <<".","4">>                                          :> <<"m","a","n">> @@
    <<".","5">>                                          :> <<"m","a","n">> @@
    <<".","6">>                                          :> <<"m","a","n">> @@
    <<".","7">>                                          :> <<"m","a","n">> @@
    <<".","8">>                                          :> <<"m","a","n">> @@
    <<".","9">>                                          :> <<"m","a","n">>

default_options ==
    [panzer |-> [support         |-> DEFAULT_SUPPORT_DIR,
                 debug           |-> FALSE,
                 verbose         |-> 1,
                 stdin_temp_file |-> <<>>,
                 \* the key 'panzer_support' is absent from the defaults; the
                 \* dictionary gains it in parse_cli_options. <<>> stands for
                 \* "no such key": only non-empty values are ever stored in it.
                 panzer_support  |-> <<>>],
     pandoc |-> [input      |-> <<>>,
                 output     |-> S_dash,
                 pdf_output |-> FALSE,
                 read       |-> <<>>,
                 write      |-> <<>>,
                 template   |-> <<>>,
                 filter     |-> <<>>,
                 options    |-> <<>>]]

default_run_lists == [f \in {ADDITIVE_FIELDS[i] : i \in DOMAIN ADDITIVE_FIELDS} |-> <<>>]


-----------------------------------------------------------------------------
(* Exceptions in main() *)

\* the exceptions the except clauses of main() name, lines 231-244
Caught == {"PanzerSetupError", "CalledProcessError", "KeyError", "PanzerKeyError",
           "PanzerBadASTError", "PanzerTypeError", "PanzerInternalError"}

\* a variant of OnRaise for a main() whose cleanup is not in a finally
\* clause: an exception no clause catches ends the process at once
OnRaise_past_cleanup(e) == IF e \in Caught THEN "except" ELSE "exit"

\* where control goes when e is raised inside the try block of main(): to
\* the matching except clause, or straight to the finally clause
OnRaise(e) == IF e \in Caught THEN "except" ELSE "cleanup"

-----------------------------------------------------------------------------
(* Option Resolver: parse_cli_options, src/panzer/cli.py *)

\* Python's truth value of a string or list: empty is false
Truthy(s) == s # <<>>

\* an optional integer is <<>> (None) or <<n>>; None and 0 are both false
TruthyInt(v) == v # <<>> /\ v[1] # 0

\* lines 97-101: the fields of the parsed namespace are 'panzer_support'
\* (argparse's dest of ---panzer-support), 'debug' and 'verbose'
update_panzer_options(opts, panzer_known) ==
    [opts EXCEPT !.panzer =
        [@ EXCEPT !.panzer_support = IF Truthy(panzer_known.panzer_support)
                                     THEN panzer_known.panzer_support ELSE @,
                  !.debug = IF panzer_known.debug THEN TRUE ELSE @,
                  !.verbose = IF TruthyInt(panzer_known.verbose)
                              THEN panzer_known.verbose[1] ELSE @]]

\* lines 126-130: fields 'read', 'write', 'output', 'template', 'filter'
update_pandoc_options(opts, pandoc_known) ==
    [opts EXCEPT !.pandoc =
        [@ EXCEPT !.read = IF Truthy(pandoc_known.read) THEN pandoc_known.read ELSE @,
                  !.write = IF Truthy(pandoc_known.write) THEN pandoc_known.write ELSE @,
                  !.output = IF Truthy(pandoc_known.output) THEN pandoc_known.output ELSE @,
                  !.template = IF Truthy(pandoc_known.template)
                               THEN pandoc_known.template ELSE @,
                  !.filter = IF Truthy(pandoc_known.filter) THEN pandoc_known.filter ELSE @]]

\* a variant of check_pdf_output that compares the extension as it is written
check_pdf_output_cased(opts) ==
    IF splitext(opts.pandoc.output)[2] = S_pdf
    THEN [opts EXCEPT !.pandoc.pdf_output = TRUE]
    ELSE opts

\* lines 131-133
check_pdf_output(opts) ==
    IF lower(splitext(opts.pandoc.output)[2]) = S_pdf
    THEN [opts EXCEPT !.pandoc.pdf_output = TRUE]
    ELSE opts

\* a variant of detect_writer without the case of standard output
detect_writer_by_extension(opts) ==
    IF Truthy(opts.pandoc.write) THEN opts
    ELSE LET ext == lower(splitext(opts.pandoc.output)[2])
         IN  IF ext \in DOMAIN pandoc_writer_mapping
             THEN [opts EXCEPT !.pandoc.write = pandoc_writer_mapping[ext]]
             ELSE [opts EXCEPT !.pandoc.write = S_html]

\* lines 134-149
detect_writer(opts) ==
    IF Truthy(opts.pandoc.write) THEN opts
    ELSE IF opts.pandoc.output = S_dash THEN [opts EXCEPT !.pandoc.write = S_html]
    ELSE LET ext == lower(splitext(opts.pandoc.output)[2])
         IN  IF ext \in DOMAIN pandoc_writer_mapping
             THEN [opts EXCEPT !.pandoc.write = pandoc_writer_mapping[ext]]
             ELSE [opts EXCEPT !.pandoc.write = S_html]

\* line 153: '-' in unknown
has_stdin(unknown) == \E i \in DOMAIN unknown : unknown[i] = S_dash

\* a variant of replace_stdin that replaces the first '-' only
replace_stdin_first(unknown, temp_filename) ==
    [i \in DOMAIN unknown |->
        IF unknown[i] = S_dash /\ \A j \in 1..(i-1) : unknown[j] # S_dash
        THEN temp_filename ELSE unknown[i]]

\* lines 164-167
replace_stdin(unknown, temp_filename) ==
    [i \in DOMAIN unknown |-> IF unknown[i] = S_dash THEN temp_filename ELSE unknown[i]]

\* lines 176-178
remove_inputs(unknown, input) ==
    SelectIdx(unknown, {i \in DOMAIN unknown : \A j \in DOMAIN input : input[j] # unknown[i]})

\* names tempfile.NamedTemporaryFile(prefix='__panzer-', suffix='__', dir=cwd) can give
TempNames ==
    { <<"/","w","/","_","_","p","a","n","z","e","r","-","a","_","_">>,
      <<"/","w","/","_","_","p","a","n","z","e","r","-","b","_","_">> }

\* `pandoc --dump-args`: the lines after the first are the tool's input files.
\* The tool is external: it reports some of the tokens that do not look like
\* options (such a token may also be the value of an option).
dump_args_inputs(unknown) ==
    { SelectIdx(unknown, keep) :
        keep \in SUBSET {i \in DOMAIN unknown : unknown[i] = <<>> \/ unknown[i][1] # "-"} }

\* lines 171-173: what the tool can print for the tokens `unknown`. The first
\* line names the output file, '-' here as --output is not among the tokens.
dump_args_lines(unknown) == { <<S_dash>> \o input : input \in dump_args_inputs(unknown) }

\* a variant of discovered_inputs that takes every line
discovered_inputs_all_lines(stdout_list) == stdout_list

\* line 175: stdout_list[1:]
discovered_inputs(stdout_list) == Tail(stdout_list)

\* options as left by lines 97-149
resolve_options(opts, args) ==
    detect_writer(check_pdf_output(
        update_pandoc_options(update_panzer_options(opts, args.panzer_known),
                              args.pandoc_known)))

\* parse_cli_options(options), called from main(), line 213. The dictionary
\* is updated in place, so what was stored before a fault stays stored.
parse_cli_options ==
    /\ pc = "parse_cli_options"
    /\ started' = Append(started, "parse_cli_options")
    /\ UNCHANGED <<inputs, exit_status, removed, run_lists, json_message, log,
                   attempts, rs_i, ret>>
    /\ \/ \* argparse prints usage (or the version) and calls sys.exit
          /\ cli.argparse # "ok"
          /\ exc' = IF cli.argparse = "version" THEN "SystemExit0" ELSE "SystemExit2"
          /\ pc' = OnRaise(exc')
          /\ UNCHANGED <<options, fs, stdin_reads, tmp_written, pandoc_calls, dump_args_stdout>>
       \/ /\ cli.argparse = "ok"
          /\ \E temp_filename \in IF has_stdin(cli.unknown) THEN TempNames \ fs ELSE {<<>>} :
               LET o4 == resolve_options(options, cli)
                   o5 == IF has_stdin(cli.unknown)
                         THEN [o4 EXCEPT !.panzer.stdin_temp_file = temp_filename]
                         ELSE o4
                   unknown5 == IF has_stdin(cli.unknown)
                               THEN replace_stdin(cli.unknown, temp_filename)
                               ELSE cli.unknown
               IN  /\ IF has_stdin(cli.unknown)
                      THEN /\ stdin_reads' = stdin_reads + 1
                           /\ tmp_written' = Append(tmp_written,
                                                [path |-> temp_filename, bytes |-> stdin_bytes])
                           /\ fs' = fs \cup {temp_filename}
                      ELSE UNCHANGED <<stdin_reads, tmp_written, fs>>
                   /\ pandoc_calls' = Append(pandoc_calls, <<S_pandoc, S_dump_args>> \o unknown5)
                   /\ \/ \* line 171: the tool exits non-zero
                         /\ options' = o5
                         /\ dump_args_stdout' = dump_args_stdout
                         /\ exc' = "CalledProcessError"
                         /\ pc' = OnRaise("CalledProcessError")
                      \/ \E stdout_list \in dump_args_lines(unknown5) :
                            /\ dump_args_stdout' = stdout_list
                            /\ options' =
                                  [o5 EXCEPT !.pandoc.input = discovered_inputs(stdout_list),
                                             !.pandoc.options =
                                                 remove_inputs(unknown5,
                                                               discovered_inputs(stdout_list))]
                            /\ exc' = "none"
                            /\ pc' = "check_support_directory"

-----------------------------------------------------------------------------
(* Command Resolver: resolve_path, src/panzer/panzer.py *)

\* a stage name as a path component
FieldChars(field) ==
    CASE field = "preflight"   -> <<"p","r","e","f","l","i","g","h","t">>
      [] field = "filter"      -> <<"f","i","l","t","e","r">>
      [] field = "postprocess" -> <<"p","o","s","t","p","r","o","c","e","s","s">>
      [] field = "postflight"  -> <<"p","o","s","t","f","l","i","g","h","t">>
      [] field = "cleanup"     -> <<"c","l","e","a","n","u","p">>

\* lines 166-182: the candidate paths, in the order they are tried
resolve_path_candidates(filename, field, opts) ==
    LET base == splitext(filename)[1]
    IN  << filename,
           join(join(S_panzer, FieldChars(field)), filename),
           join(join(join(S_panzer, FieldChars(field)), base), filename),
           join(join(opts.panzer.support, FieldChars(field)), filename),
           join(join(join(opts.panzer.support, FieldChars(field)), base), filename) >>

\* lines 183-186: the first candidate that exists, else the name itself
FirstExisting(paths, files, default) ==
    IF \E i \in DOMAIN paths : paths[i] \in files
    THEN paths[CHOOSE i \in DOMAIN paths :
                  paths[i] \in files /\ \A j \in 1..(i-1) : paths[j] \notin files]
    ELSE default

\* resolve_path(filename, field, options) of panzer.py, the one build_run_list
\* calls: the definition at line 164 replaces the name imported from util
resolve_path(filename, field, opts, files) ==
    FirstExisting(resolve_path_candidates(filename, field, opts), files, filename)

\* resolve_path(filename, kind, options) of util.py: the stage directories are
\* relative to the working directory, and the support directory is read under
\* the key 'panzer_support', which raises KeyError when the key is absent
util_resolve_path(filename, kind, opts, files) ==
    LET base == splitext(filename)[1]
        sup == opts.panzer.panzer_support
        paths == << filename,
                    join(FieldChars(kind), filename),
                    join(join(FieldChars(kind), base), filename),
                    join(join(sup, FieldChars(kind)), filename),
                    join(join(join(sup, FieldChars(kind)), base), filename) >>
    IN  IF sup = <<>>
        THEN [exc |-> "KeyError", value |-> <<>>]
        ELSE [exc |-> "none", value |-> FirstExisting(paths, files, filename)]

-----------------------------------------------------------------------------
(* Metadata access. A node is a record with the keys "t" (kind) and "c"     *)
(* (content); a malformed node lacks one of them. The content of MetaInlines *)
(* is a list of inline elements, of MetaList a list of nodes, of MetaMap a   *)
(* mapping from names to nodes.                                              *)

\* log(level, sender, message)
LogRec(level, who, msg) == [level |-> level, who |-> who, msg |-> msg]

\* get_type(metadata, field): the exception it raises, "none" when it returns
get_type_exc(md, field) ==
    IF field \notin DOMAIN md THEN "PanzerKeyError"
    ELSE IF "t" \notin DOMAIN md[field] THEN "PanzerKeyError"
    ELSE "none"

\* get_content(metadata, field, expected_type): the exception it raises
get_content_exc(md, field, expected) ==
    IF get_type_exc(md, field) # "none" THEN get_type_exc(md, field)
    ELSE IF md[field].t # expected THEN "PanzerTypeError"
    ELSE IF "c" \notin DOMAIN md[field] THEN "PanzerKeyError"
    ELSE "none"

\* check_c_and_t_exist(item): the exception it raises
check_c_and_t_exist(item) ==
    IF "c" \notin DOMAIN item \/ "t" \notin DOMAIN item THEN "PanzerBadASTError" ELSE "none"

\* pandocfilters.stringify on a list of Str and Space elements
RECURSIVE stringify(_)
stringify(inlines) ==
    IF inlines = <<>> THEN <<>>
    ELSE (IF Head(inlines).t = "Str" THEN Head(inlines).c ELSE <<" ">>)
         \o stringify(Tail(inlines))

\* shlex.split on text without quotes or escapes: the maximal runs of
\* characters other than the space
RECURSIVE shlex_split(_)
shlex_split(str) ==
    IF str = <<>> THEN <<>>
    ELSE IF Head(str) = " " THEN shlex_split(Tail(str))
    ELSE LET n == IF \E i \in DOMAIN str : str[i] = " "
                  THEN (CHOOSE i \in DOMAIN str :
                            str[i] = " " /\ \A j \in 1..(i-1) : str[j] # " ") - 1
                  ELSE Len(str)
         IN  <<SubSeq(str, 1, n)>> \o shlex_split(SubSeq(str, n+1, Len(str)))

-----------------------------------------------------------------------------
(* Argument Decoder: parse_args_metalist, src/panzer/panzer.py lines 134-162 *)

\* the outcome of lines 150-161 for the field name k of kind t with value c
decode_field(k, t, c) ==
    IF t = "MetaBool"
    THEN [exc |-> "none", arguments |-> << <<"-","-">> \o k >>, log |-> <<>>]
    ELSE IF t = "MetaInlines"
    THEN [exc |-> "none",
          arguments |-> << <<"-","-">> \o k \o <<"=","\"">> \o stringify(c) \o <<"\"">> >>,
          log |-> <<>>]
    ELSE [exc |-> "none", arguments |-> <<>>,
          log |-> <<LogRec("ERROR", S_panzer, "args: type not supported")>>]

\* a variant of parse_args_item that gives the flag of a MetaBool only when
\* the boolean is true
parse_args_item_if_true(item) ==
    IF item.t = "MetaMap" /\ Cardinality(DOMAIN item.c) = 1
    THEN LET k == CHOOSE k \in DOMAIN item.c : TRUE
         IN  IF item.c[k].t = "MetaBool" /\ item.c[k].c = FALSE
             THEN [exc |-> "none", arguments |-> <<>>, log |-> <<>>]
             ELSE decode_field(k, item.c[k].t, item.c[k].c)
    ELSE [exc |-> "none", arguments |-> <<>>,
          log |-> <<LogRec("ERROR", S_panzer, "args: not a single-key MetaMap")>>]

\* one pass of the loop body, lines 138-161: the arguments and log records
\* it adds, and the exception it raises
parse_args_item(item) ==
    IF "t" \notin DOMAIN item
    THEN [exc |-> "KeyError", arguments |-> <<>>, log |-> <<>>]
    ELSE IF item.t # "MetaMap"
    THEN [exc |-> "none", arguments |-> <<>>,
          log |-> <<LogRec("ERROR", S_panzer, "args: not a MetaMap")>>]
    ELSE IF "c" \notin DOMAIN item
    THEN [exc |-> "KeyError", arguments |-> <<>>, log |-> <<>>]
    ELSE IF Cardinality(DOMAIN item.c) # 1
    THEN [exc |-> "none", arguments |-> <<>>,
          log |-> <<LogRec("ERROR", S_panzer, "args: not exactly one field")>>]
    ELSE LET fields == item.c
             field_name == CHOOSE k \in DOMAIN fields : TRUE
         IN  IF get_type_exc(fields, field_name) # "none"
             THEN [exc |-> get_type_exc(fields, field_name), arguments |-> <<>>, log |-> <<>>]
             ELSE IF get_content_exc(fields, field_name, fields[field_name].t) # "none"
             THEN [exc |-> get_content_exc(fields, field_name, fields[field_name].t),
                   arguments |-> <<>>, log |-> <<>>]
             ELSE decode_field(field_name, fields[field_name].t, fields[field_name].c)

\* the result of a loop whose first pass gave `first` and whose other
\* passes gave `rest`
args_concat(first, rest) ==
    [exc |-> rest.exc, arguments |-> first.arguments \o rest.arguments,
     log |-> first.log \o rest.log]

\* lines 136-162: the loop; a pass that raises ends it
RECURSIVE parse_args_metalist(_)
args_after(first, others) ==
    IF first.exc # "none" THEN first ELSE args_concat(first, parse_args_metalist(others))

parse_args_metalist(arguments_list) ==
    IF arguments_list = <<>> THEN [exc |-> "none", arguments |-> <<>>, log |-> <<>>]
    ELSE args_after(parse_args_item(Head(arguments_list)), Tail(arguments_list))

-----------------------------------------------------------------------------
(* Run-List Builder: build_run_list and build_run_lists, src/panzer/panzer.py *)

\* lines 119-130: the arguments of one item
item_arguments(item_content) ==
    IF "args" \notin DOMAIN item_content
    THEN [exc |-> "none", arguments |-> <<>>, log |-> <<>>]
    ELSE IF get_type_exc(item_content, "args") # "none"
    THEN [exc |-> get_type_exc(item_content, "args"), arguments |-> <<>>, log |-> <<>>]
    ELSE IF item_content.args.t = "MetaInlines"
    THEN IF get_content_exc(item_content, "args", "MetaInlines") # "none"
         THEN [exc |-> get_content_exc(item_content, "args", "MetaInlines"),
               arguments |-> <<>>, log |-> <<>>]
         ELSE [exc |-> "none", arguments |-> shlex_split(stringify(item_content.args.c)),
               log |-> <<>>]
    ELSE IF item_content.args.t = "MetaList"
    THEN IF get_content_exc(item_content, "args", "MetaList") # "none"
         THEN [exc |-> get_content_exc(item_content, "args", "MetaList"),
               arguments |-> <<>>, log |-> <<>>]
         ELSE parse_args_metalist(item_content.args.c)
    ELSE [exc |-> "none", arguments |-> <<>>, log |-> <<>>]

\* lines 117-131: the command made of the resolved name and the arguments
command_with(path, args) ==
    [exc |-> args.exc,
     run_list |-> IF args.exc = "none" THEN << <<path>> \o args.arguments >> ELSE <<>>,
     log |-> args.log]

\* lines 112-131: the command one item of the metadata list declares
build_command(item, field, opts, files) ==
    IF check_c_and_t_exist(item) # "none"
    THEN [exc |-> check_c_and_t_exist(item), run_list |-> <<>>, log |-> <<>>]
    ELSE IF item.t # "MetaMap"
    \* item[C] is not a mapping: indexing it with 'run' raises TypeError
    THEN [exc |-> "Exception", run_list |-> <<>>, log |-> <<>>]
    ELSE IF get_content_exc(item.c, "run", "MetaInlines") # "none"
    THEN [exc |-> get_content_exc(item.c, "run", "MetaInlines"), run_list |-> <<>>,
          log |-> <<>>]
    ELSE command_with(resolve_path(stringify(item.c.run.c), field, opts, files),
                      item_arguments(item.c))

\* the run list of a loop whose first pass gave `first` and whose other
\* passes gave `rest`
items_concat(first, rest) ==
    [exc |-> rest.exc,
     run_list |-> IF rest.exc = "none" THEN first.run_list \o rest.run_list ELSE <<>>,
     log |-> first.log \o rest.log]

\* lines 111-132: the loop over the items; a pass that raises ends it
RECURSIVE build_items(_, _, _, _)
items_after(first, others, field, opts, files) ==
    IF first.exc # "none" THEN first
    ELSE items_concat(first, build_items(others, field, opts, files))

build_items(metadata_list, field, opts, files) ==
    IF metadata_list = <<>> THEN [exc |-> "none", run_list |-> <<>>, log |-> <<>>]
    ELSE items_after(build_command(Head(metadata_list), field, opts, files),
                     Tail(metadata_list), field, opts, files)

\* build_run_list(metadata, field, options), lines 103-132
build_run_list(md, field, opts, files) ==
    IF get_content_exc(md, field, "MetaList") # "none"
    THEN [exc |-> "none", run_list |-> <<>>,
          log |-> <<LogRec("WARNING", S_panzer, get_content_exc(md, field, "MetaList"))>>]
    ELSE build_items(md[field].c, field, opts, files)

\* line 95: command.insert(1, write)
insert_writer(command, write) ==
    IF command = <<>> THEN <<write>>
    ELSE <<Head(command), write>> \o Tail(command)

\* lines 92-100: the list is stored, the filters with the writer inserted
store_run_list(lists, field, final, log0) ==
    [exc |-> "none", run_lists |-> [lists EXCEPT ![field] = final],
     log |-> log0 \o [i \in DOMAIN final |-> LogRec("INFO", S_panzer, field)]]

\* a variant of finish_field that keeps the postprocess list for PDF output
finish_field_keep_postprocess(lists, opts, field, run_list, log0) ==
    store_run_list(lists, field,
                   IF field = "filter"
                   THEN [i \in DOMAIN run_list |->
                             insert_writer(run_list[i], opts.pandoc.write)]
                   ELSE run_list,
                   log0)

\* lines 85-100: what becomes of the list `run_list` of `field`
finish_field(lists, opts, field, run_list, log0) ==
    IF opts.pandoc.pdf_output /\ field = "postprocess" /\ run_list # <<>>
    THEN [exc |-> "none", run_lists |-> [lists EXCEPT ![field] = <<>>],
          log |-> log0 \o <<LogRec("INFO", S_panzer, "postprocess skipped")>>]
    ELSE store_run_list(lists, field,
                        IF field = "filter"
                        THEN [i \in DOMAIN run_list |->
                                  insert_writer(run_list[i], opts.pandoc.write)]
                        ELSE run_list,
                        log0)

\* a variant of extend_field that puts the metadata's commands first
extend_field_metadata_first(lists, opts, field, built) ==
    IF built.exc # "none"
    THEN [exc |-> built.exc, run_lists |-> lists, log |-> built.log]
    ELSE finish_field(lists, opts, field,
                      built.run_list \o (IF field = "filter" /\ Truthy(opts.pandoc.filter)
                                         THEN opts.pandoc.filter ELSE lists[field]),
                      built.log)

\* lines 78-84: the list the pass starts from, extended with what the
\* metadata declares (`built`); a fault leaves the run lists as they were
extend_field(lists, opts, field, built) ==
    IF built.exc # "none"
    THEN [exc |-> built.exc, run_lists |-> lists, log |-> built.log]
    ELSE finish_field(lists, opts, field,
                      (IF field = "filter" /\ Truthy(opts.pandoc.filter)
                       THEN opts.pandoc.filter ELSE lists[field]) \o built.run_list,
                      built.log)

\* lines 78-100: one pass of the loop of build_run_lists, for `field`.
\* Returns the run lists after the pass, the log records and the exception.
build_field(md, lists, opts, files, field) ==
    extend_field(lists, opts, field,
                 IF field \in DOMAIN md THEN build_run_list(md, field, opts, files)
                 ELSE [exc |-> "none", run_list |-> <<>>, log |-> <<>>])

\* build_run_lists(metadata, run_lists, options), lines 75-101: the passes
\* for the fields from position k on. The dictionary is updated in place,
\* so the passes made before a fault stay made.
RECURSIVE build_run_lists_from(_, _, _, _, _)
fields_concat(first, rest) ==
    [exc |-> rest.exc, run_lists |-> rest.run_lists, log |-> first.log \o rest.log]

fields_after(k, md, first, opts, files) ==
    IF first.exc # "none" THEN first
    ELSE fields_concat(first, build_run_lists_from(k+1, md, first.run_lists, opts, files))

build_run_lists_from(k, md, lists, opts, files) ==
    IF k > Len(ADDITIVE_FIELDS) THEN [exc |-> "none", run_lists |-> lists, log |-> <<>>]
    ELSE fields_after(k, md, build_field(md, lists, opts, files, ADDITIVE_FIELDS[k]),
                      opts, files)

build_run_lists(md, lists, opts, files) == build_run_lists_from(1, md, lists, opts, files)

-----------------------------------------------------------------------------
(* main(), src/panzer/panzer.py lines 206-259 *)

\* make_json_message(doc, run_lists, options): the document is left out
make_json_message(lists, opts) == [run_lists |-> lists, options |-> opts]

\* a variant of TupleLess that compares the first components only
TupleLess_major(a, b) == a # <<>> /\ b # <<>> /\ Head(a) < Head(b)

\* versiontuple(a) < versiontuple(b): Python's comparison of tuples
RECURSIVE TupleLess(_, _)
TupleLess(a, b) ==
    IF b = <<>> THEN FALSE
    ELSE IF a = <<>> THEN TRUE
    ELSE IF Head(a) # Head(b) THEN Head(a) < Head(b)
    ELSE TupleLess(Tail(a), Tail(b))

\* check_pandoc_exists(), src/panzer/util.py lines 8-23, called at line 212
check_pandoc_exists ==
    /\ pc = "check_pandoc_exists"
    /\ started' = Append(started, "check_pandoc_exists")
    /\ pandoc_calls' = Append(pandoc_calls, <<S_pandoc, S_version>>)
    /\ IF pandoc = <<>> \/ TupleLess(pandoc, REQUIRE_PANDOC_ATLEAST)
       THEN exc' = "PanzerSetupError" /\ pc' = OnRaise("PanzerSetupError")
       ELSE exc' = "none" /\ pc' = "parse_cli_options"
    /\ UNCHANGED <<inputs, exit_status, fs, stdin_reads, tmp_written, removed, options,
                   run_lists, json_message, log, attempts, rs_i, ret, dump_args_stdout>>

\* the directories create_default_support_dir() makes, util.py lines 54-68
DefaultSupportTree ==
    {DEFAULT_SUPPORT_DIR} \cup
    {join(DEFAULT_SUPPORT_DIR, FieldChars(ADDITIVE_FIELDS[i])) : i \in DOMAIN ADDITIVE_FIELDS}

\* start_logger(options) and check_support_directory(options), lines 214-215;
\* check_support_directory is src/panzer/util.py lines 31-52
check_support_directory ==
    /\ pc = "check_support_directory"
    /\ started' = Append(started, "check_support_directory")
    /\ UNCHANGED <<inputs, exit_status, stdin_reads, tmp_written, removed, pandoc_calls, dump_args_stdout,
                   run_lists, json_message, attempts, rs_i, ret>>
    /\ IF options.panzer.panzer_support = <<>>
       THEN \* options['panzer']['panzer_support']: no such key
            /\ exc' = "KeyError"
            /\ pc' = OnRaise("KeyError")
            /\ UNCHANGED <<options, fs, log>>
       ELSE LET missing == options.panzer.panzer_support # DEFAULT_SUPPORT_DIR
                           /\ options.panzer.panzer_support \notin fs
                log1 == IF missing
                        THEN <<LogRec("ERROR", S_panzer, "support directory not found"),
                               LogRec("WARNING", S_panzer, "using default support directory")>>
                        ELSE <<>>
                o1 == IF missing
                      THEN [options EXCEPT !.panzer.panzer_support = DEFAULT_SUPPORT_DIR]
                      ELSE options
            IN  /\ options' = o1
                /\ IF DEFAULT_SUPPORT_DIR \in fs
                   THEN /\ log' = log \o log1
                        /\ exc' = "none"
                        /\ pc' = "load"
                        /\ fs' = fs
                   ELSE /\ log' = log \o log1 \o
                                  <<LogRec("WARNING", S_panzer, "default support directory not found"),
                                    LogRec("WARNING", S_panzer, "create blank support directory?")>>
                        /\ IF stdin_reads > 0 \/ stdin_bytes = <<>>
                           THEN \* input() at end of file raises EOFError
                                /\ exc' = "Exception"
                                /\ pc' = OnRaise("Exception")
                                /\ fs' = fs
                           ELSE /\ exc' = "none"
                                /\ pc' = "load"
                                /\ fs' = fs \cup DefaultSupportTree

\* the outcome of a step of an external collaborator: it returns, or raises
\* one of the given exceptions
External(here, next, raises) ==
    /\ pc = here
    /\ started' = Append(started, here)
    /\ \/ exc' = "none" /\ pc' = next
       \/ \E e \in raises : exc' = e /\ pc' = OnRaise(e)

\* lines 216-220: load, load_yaml_styledef, Document.populate and transform
load ==
    /\ External("load", "build_run_lists", {"CalledProcessError", "PanzerBadASTError"})
    /\ UNCHANGED <<inputs, exit_status, fs, stdin_reads, tmp_written, removed, pandoc_calls, dump_args_stdout,
                   options, run_lists, json_message, log, attempts, rs_i, ret>>

\* a variant of cli_filters_shared for a run list seeded with the lists of
\* options['pandoc']['filter'] themselves
cli_filters_shared_uncopied(opts) == Truthy(opts.pandoc.filter)

\* line 81: whether the commands that seed the filter run list are the list
\* objects of options['pandoc']['filter']. list(f) makes a new list of each,
\* so they are not.
cli_filters_shared(opts) == FALSE

\* the options after build_run_lists: line 95 inserts the writer into the
\* commands of the filter run list, which changes the filters of the options
\* when these are the same lists. r.run_lists has the filter list stored
\* (line 96) exactly when the insertions were made.
options_after_build(opts, r) ==
    IF cli_filters_shared(opts) /\ r.run_lists["filter"] # <<>>
    THEN [opts EXCEPT !.pandoc.filter =
              [i \in DOMAIN opts.pandoc.filter |->
                   insert_writer(opts.pandoc.filter[i], opts.pandoc.write)]]
    ELSE opts

\* line 221: the dictionary as build_run_lists left it, and what it raised
build_run_lists_result(r) ==
    /\ run_lists' = r.run_lists
    /\ log' = log \o r.log
    /\ exc' = r.exc
    /\ options' = options_after_build(options, r)
    /\ pc' = IF r.exc = "none" THEN "make_json_message" ELSE OnRaise(r.exc)

\* line 221: run_lists = build_run_lists(doc.get_metadata(), run_lists, options)
build_run_lists_step ==
    /\ pc = "build_run_lists"
    /\ started' = Append(started, "build_run_lists")
    /\ build_run_lists_result(build_run_lists(metadata, run_lists, options, fs))
    /\ UNCHANGED <<inputs, exit_status, fs, stdin_reads, tmp_written, removed, pandoc_calls, dump_args_stdout,
                   json_message, attempts, rs_i, ret>>

\* lines 222-224: purge_styles, make_json_message, inject_panzer_reserved_field
make_json_message_step ==
    /\ pc = "make_json_message"
    /\ started' = Append(started, "make_json_message")
    /\ \/ /\ json_message' = make_json_message(run_lists, options)
          /\ exc' = "none"
          /\ pc' = "preflight"
       \/ \* doc.purge_styles() finds the document malformed
          /\ json_message' = json_message
          /\ exc' = "PanzerBadASTError"
          /\ pc' = OnRaise("PanzerBadASTError")
    /\ UNCHANGED <<inputs, exit_status, fs, stdin_reads, tmp_written, removed, pandoc_calls, dump_args_stdout,
                   options, run_lists, log, attempts, rs_i, ret>>

-----------------------------------------------------------------------------
(* Script Executor: run_scripts, src/panzer/panzer.py lines 39-73 *)

\* the calls of run_scripts in main(): lines 225, 230 and 249
ScriptStages == {"preflight", "postflight", "cleanup"}
force_run(kind) == kind = "cleanup"
\* a variant of AfterScripts that goes from preflight straight to cleanup
AfterScripts_skip(kind) ==
    CASE kind = "preflight"  -> "cleanup"
      [] kind = "postflight" -> "cleanup"
      [] kind = "cleanup"    -> "remove_temp"

AfterScripts(kind) ==
    CASE kind = "preflight"  -> "filter"
      [] kind = "postflight" -> "cleanup"
      [] kind = "cleanup"    -> "remove_temp"

S_err == <<"e","r","r">>

\* a variant of Outcomes in which a child that exits with a non-zero status
\* is a fault, as with subprocess.check_call
Outcomes_checked ==
    {[fault |-> "none", returncode |-> 0, child_stderr |-> <<>>],
     [fault |-> "Exception", returncode |-> 1, child_stderr |-> <<>>],
     [fault |-> "OSError", returncode |-> 0, child_stderr |-> <<>>]}

\* what can happen to one command. fault: "none" (the child was spawned, was
\* sent the message and exited), "OSError" (Popen could not spawn it) or
\* "Exception" (another fault in lines 55-61, after the spawn). child_stderr
\* is what the child wrote to its standard error.
Outcomes ==
    {[fault |-> "none", returncode |-> 0, child_stderr |-> <<>>],
     [fault |-> "none", returncode |-> 0, child_stderr |-> S_err],
     [fault |-> "none", returncode |-> 1, child_stderr |-> <<>>]}
    \cup {[fault |-> "OSError", returncode |-> 0, child_stderr |-> <<>>],
          [fault |-> "Exception", returncode |-> 0, child_stderr |-> S_err]}

\* log_stderr(stderr, filename), line 73: logs the text when there is some
log_stderr(stderr, filename) ==
    IF stderr # <<>> THEN <<LogRec("STDERR", filename, "stderr")>> ELSE <<>>

\* variants of raises: no fault is raised; every fault is raised unless
\* force_run; force_run is not looked at
raises_never(fault, force) == FALSE
raises_any_fault(fault, force) == fault # "none" /\ ~force
raises_despite_force(fault, force) == fault = "Exception"

\* lines 62-71: whether the fault of a command is raised to the caller of
\* run_scripts: OSError never is, another exception is unless force_run
raises(fault, force) == fault = "Exception" /\ ~force

\* lines 42-44: nothing to run, or the banner
run_scripts_enter ==
    /\ pc \in ScriptStages
    /\ rs_i = 0
    /\ started' = Append(started, pc)
    /\ IF run_lists[pc] = <<>>
       THEN /\ pc' = AfterScripts(pc)
            /\ UNCHANGED <<rs_i, log>>
       ELSE /\ log' = Append(log, LogRec("INFO", S_panzer, pc))
            /\ rs_i' = 1
            /\ pc' = pc
    /\ UNCHANGED <<inputs, exc, exit_status, fs, stdin_reads, tmp_written, removed,
                   pandoc_calls, dump_args_stdout, options, run_lists, json_message, attempts, ret>>

\* lines 45-73: one pass of the loop, for the command at rs_i
run_scripts_command ==
    /\ pc \in ScriptStages
    /\ rs_i >= 1
    /\ \E out \in Outcomes :
        LET command == run_lists[pc][rs_i]
            filename == basename(command[1])
            \* lines 60-61: stderr is set only when no fault came before
            stderr == IF out.fault = "none" THEN out.child_stderr ELSE <<>>
            raised == raises(out.fault, force_run(pc))
            last == rs_i = Len(run_lists[pc])
        IN  /\ attempts' = Append(attempts,
                              [kind |-> pc, index |-> rs_i, command |-> command,
                               outcome |-> out, message |-> json_message,
                               force_run |-> force_run(pc)])
            /\ log' = log \o <<LogRec("INFO", S_panzer, "run")>>
                          \o (IF out.fault # "none" /\ ~raised
                              THEN <<LogRec("ERROR", filename, out.fault)>> ELSE <<>>)
                          \o log_stderr(stderr, filename)
            /\ IF raised
               THEN /\ exc' = "Exception"
                    \* raised inside the finally clause, it ends main() there
                    /\ pc' = IF pc = "cleanup" THEN "exit" ELSE OnRaise("Exception")
                    /\ rs_i' = 0
               ELSE IF last
               THEN exc' = exc /\ pc' = AfterScripts(pc) /\ rs_i' = 0
               ELSE exc' = exc /\ pc' = pc /\ rs_i' = rs_i + 1
    /\ UNCHANGED <<inputs, exit_status, fs, stdin_reads, tmp_written, removed,
                   pandoc_calls, dump_args_stdout, options, run_lists, json_message, started, ret>>

-----------------------------------------------------------------------------
(* main(), continued *)

\* line 226: doc.pipe_through('filter', run_lists)
pipe_through_filter ==
    /\ External("filter", "pandoc", {"PanzerInternalError"})
    /\ UNCHANGED <<inputs, exit_status, fs, stdin_reads, tmp_written, removed, pandoc_calls, dump_args_stdout,
                   options, run_lists, json_message, log, attempts, rs_i, ret>>

\* line 227: doc.pandoc(options)
doc_pandoc ==
    /\ External("pandoc", "postprocess", {"CalledProcessError"})
    /\ UNCHANGED <<inputs, exit_status, fs, stdin_reads, tmp_written, removed, pandoc_calls, dump_args_stdout,
                   options, run_lists, json_message, log, attempts, rs_i, ret>>

\* line 228: doc.pipe_through('postprocess', run_lists)
pipe_through_postprocess ==
    /\ External("postprocess", "write", {"PanzerInternalError"})
    /\ UNCHANGED <<inputs, exit_status, fs, stdin_reads, tmp_written, removed, pandoc_calls, dump_args_stdout,
                   options, run_lists, json_message, log, attempts, rs_i, ret>>

\* line 229: doc.write(options)
doc_write ==
    /\ External("write", "postflight", {"Exception"})
    /\ UNCHANGED <<inputs, exit_status, fs, stdin_reads, tmp_written, removed, pandoc_calls, dump_args_stdout,
                   options, run_lists, json_message, log, attempts, rs_i, ret>>

\* lines 231-247: the except clauses; each ends in sys.exit(1)
except_clause ==
    /\ pc = "except"
    /\ exc \in Caught
    /\ log' = IF exc = "PanzerSetupError" THEN log  \* printed to stderr, not logged
              ELSE Append(log, LogRec("CRITICAL", S_panzer, exc))
    /\ exc' = "SystemExit1"
    /\ pc' = "cleanup"
    /\ UNCHANGED <<inputs, exit_status, fs, stdin_reads, tmp_written, removed, pandoc_calls, dump_args_stdout,
                   options, run_lists, json_message, attempts, started, rs_i, ret>>

\* lines 250-257: the rest of the finally clause
remove_temp ==
    /\ pc = "remove_temp"
    /\ started' = Append(started, "remove_temp")
    /\ IF Truthy(options.panzer.stdin_temp_file)
       THEN /\ removed' = Append(removed, options.panzer.stdin_temp_file)
            /\ fs' = fs \ {options.panzer.stdin_temp_file}
            /\ log' = log \o <<LogRec("DEBUG", S_panzer, "deleted temp file"),
                                LogRec("DEBUG", S_panzer, "panzer quits")>>
       ELSE /\ UNCHANGED <<removed, fs>>
            /\ log' = Append(log, LogRec("DEBUG", S_panzer, "panzer quits"))
    /\ pc' = "exit"
    /\ UNCHANGED <<inputs, exc, exit_status, stdin_reads, tmp_written, pandoc_calls, dump_args_stdout,
                   options, run_lists, json_message, attempts, rs_i, ret>>

\* the status the process exits with once the finally clause is over: line
\* 259 when nothing is in flight, else that of the exception in flight (an
\* exception other than SystemExit ends the interpreter with status 1)
ExitCode(e) ==
    CASE e = "none" -> 0
      [] e = "SystemExit0" -> 0
      [] e = "SystemExit2" -> 2
      [] OTHER -> 1

exit ==
    /\ pc = "exit"
    /\ exit_status' = <<ExitCode(exc)>>
    /\ pc' = "done"
    /\ UNCHANGED <<inputs, exc, fs, stdin_reads, tmp_written, removed, pandoc_calls, dump_args_stdout,
                   options, run_lists, json_message, log, attempts, started, rs_i, ret>>

-----------------------------------------------------------------------------
(* Inputs *)

S_doc == <<"d","o","c">>
S_a_md == <<"a",".","m","d">>
S_toc == <<"-","-","t","o","c">>
S_docx == <<"d","o","c","x">>
S_sup == <<"/","s","u","p">>
S_f1 == <<"f","1">>
S_f_py == <<"f",".","p","y">>
S_doc_pdf == <<"d","o","c",".","p","d","f">>
S_doc_PDF == <<"d","o","c",".","P","D","F">>
S_doc_tex == <<"d","o","c",".","t","e","x">>

\* output paths: "-", doc<ext> for every extension of the table, and paths
\* whose extension is in another case, unknown, hidden or not the last component
OutputPaths ==
    {S_dash} \cup {S_doc \o e : e \in DOMAIN pandoc_writer_mapping} \cup
    { S_doc_PDF, <<"d","o","c",".","P","d","f">>,
      <<"d","o","c",".","T","e","X">>, <<"d","o","c",".","h","t","m","l">>,
      <<"d","o","c",".","x","y","z">>, <<".","p","d","f">>, <<"d","o","c",".">>,
      <<"a",".","p","d","f","/","d","o","c">>, <<"d","o","c",".","p","d","f",".","m","d">>,
      <<"o",".","d","/",".","p","d","f">>, <<"d","o","c",".","m","d",".","p","d","f">> }

Tokens == {S_dash, S_a_md, S_toc}

NoPanzerKnown == [panzer_support |-> <<>>, debug |-> FALSE, verbose |-> <<>>]
NoPandocKnown == [read |-> <<>>, write |-> <<>>, output |-> <<>>, template |-> <<>>,
                  filter |-> <<>>]
Args(panzer_known, pandoc_known, unknown) ==
    [argparse |-> "ok", panzer_known |-> panzer_known, pandoc_known |-> pandoc_known,
     unknown |-> unknown]

\* command lines argparse rejects, and ---version
BadArgs ==
    { [argparse |-> a, panzer_known |-> NoPanzerKnown, pandoc_known |-> NoPandocKnown,
       unknown |-> <<>>] : a \in {"usage_error", "version"} }

\* command lines for the option resolver: every output path, with and without
\* an explicit writer, and every short list of residual tokens
CliArgs ==
    { Args(NoPanzerKnown, [NoPandocKnown EXCEPT !.output = o, !.write = w], u) :
        o \in OutputPaths \cup {<<>>}, w \in {<<>>, S_docx}, u \in SeqUpTo(Tokens, MaxTokens) }
    \cup BadArgs

\* --filter NAME gives the one-element list [NAME]
FilterArgs == {<<f>> : f \in {S_f1, S_f_py}}

\* command lines for the run-list builder: the support directory is given
BuildArgs ==
    { Args([NoPanzerKnown EXCEPT !.panzer_support = S_sup],
           [NoPandocKnown EXCEPT !.output = o, !.write = w, !.filter = f], <<>>) :
        o \in {<<>>, S_doc_PDF, S_doc_tex}, w \in {<<>>, S_docx},
        f \in SeqUpTo(FilterArgs, MaxFilters) }

\* metadata nodes
Str(c) == [t |-> "Str", c |-> c]
Space == [t |-> "Space", c |-> <<>>]
MetaInlines(c) == [t |-> "MetaInlines", c |-> c]
MetaList(c) == [t |-> "MetaList", c |-> c]
MetaMap(c) == [t |-> "MetaMap", c |-> c]
MetaBool(c) == [t |-> "MetaBool", c |-> c]

\* well-formed items of a stage's list: a command without arguments, one
\* with its arguments in a string, one with its arguments in a list
GoodItems ==
    << MetaMap([run |-> MetaInlines(<<Str(S_f1)>>)]),
       MetaMap([run |-> MetaInlines(<<Str(S_f_py)>>),
                args |-> MetaInlines(<<Str(<<"-","x">>), Space, Str(<<"y">>)>>)]),
       MetaMap([run |-> MetaInlines(<<Str(<<"g">>)>>),
                args |-> MetaList(<< MetaMap(<<"t","o","c">> :> MetaBool(FALSE)),
                                     MetaMap(<<"o">> :> MetaInlines(<<Str(<<"v">>)>>)) >>)]) >>

\* the well-formed lists of at most n items, given by the positions in GoodItems
GoodLists(n) == SeqUpTo(DOMAIN GoodItems, n)
ListNode(idx) == MetaList([j \in DOMAIN idx |-> GoodItems[idx[j]]])

\* what a stage's field can hold besides a well-formed list: a node that is
\* not a list, an item without its content, an item without `run`, an item
\* whose `run` is of the wrong kind
BadFields ==
    << MetaInlines(<<Str(S_f1)>>),
       MetaList(<<[t |-> "MetaMap"]>>),
       MetaList(<<MetaMap([args |-> MetaInlines(<<Str(<<"y">>)>>)])>>),
       MetaList(<<MetaMap([run |-> MetaBool(TRUE)])>>) >>

\* the filesystems tried: with and without the support directories, and
\* with scripts at some of the places resolve_path looks at
FsBase == {DEFAULT_SUPPORT_DIR, S_sup}
FsScripts ==
    { {}, {S_f_py},
      {join(join(S_panzer, FieldChars("filter")), S_f_py),
       join(join(join(DEFAULT_SUPPORT_DIR, FieldChars("filter")), <<"f">>), S_f_py)},
      {join(join(DEFAULT_SUPPORT_DIR, FieldChars("cleanup")), S_f1),
       join(FieldChars("filter"), S_f_py)} }

InitState ==
    /\ pc = "check_pandoc_exists"
    /\ exc = "none"
    /\ exit_status = <<>>
    /\ stdin_reads = 0
    /\ tmp_written = <<>>
    /\ removed = <<>>
    /\ pandoc_calls = <<>>
    /\ dump_args_stdout = <<>>
    /\ options = default_options
    /\ run_lists = default_run_lists
    /\ json_message = make_json_message(default_run_lists, default_options)
    /\ log = <<>>
    /\ attempts = <<>>
    /\ started = <<>>
    /\ rs_i = 0
    /\ ret = <<>>

-----------------------------------------------------------------------------
(* The option resolver, on every command line of CliArgs *)

InitCli ==
    /\ InitState
    /\ cli \in CliArgs
    /\ stdin_bytes \in {<<>>, <<104, 105>>}
    /\ pandoc = REQUIRE_PANDOC_ATLEAST
    /\ metadata = <<>>
    /\ fs \in {FsBase, FsBase \cup {CHOOSE t \in TempNames : TRUE}}

NextCli == check_pandoc_exists \/ parse_cli_options

SpecCli == InitCli /\ [][NextCli]_vars

-----------------------------------------------------------------------------
(* The option resolver, on the options of the tool itself *)

\* lines 86-87: ---verbose takes an integer; the help text names 0, 1 and 2
VerboseLevels == {<<0>>, <<1>>, <<2>>}

\* command lines with and without ---panzer-support, ---debug and ---verbose
ToolArgs ==
    { Args([panzer_support |-> d, debug |-> g, verbose |-> v], NoPandocKnown, u) :
        d \in {<<>>, S_sup}, g \in BOOLEAN, v \in {<<>>} \cup VerboseLevels,
        u \in {<<>>, <<S_a_md>>, <<S_dash>>} }

InitTool ==
    /\ InitState
    /\ cli \in ToolArgs
    /\ stdin_bytes = <<104, 105>>
    /\ pandoc = REQUIRE_PANDOC_ATLEAST
    /\ metadata = <<>>
    /\ fs = FsBase

SpecTool == InitTool /\ [][NextCli]_vars

-----------------------------------------------------------------------------
(* The run-list builder, on the command lines of BuildArgs and on metadata   *)
(* that declares well-formed and malformed lists                             *)

InitBuild ==
    /\ InitState
    /\ cli \in BuildArgs
    /\ stdin_bytes = <<>>
    /\ pandoc = REQUIRE_PANDOC_ATLEAST
    /\ fs \in {FsBase \cup x : x \in FsScripts}
    /\ \/ metadata = <<>>
       \/ \E filters \in GoodLists(MaxItems) : metadata = ("filter" :> ListNode(filters))
       \/ \E post \in GoodLists(MaxItems) :
             metadata = ("filter" :> ListNode(<<2>>)) @@ ("postprocess" :> ListNode(post))
       \/ \E bad \in DOMAIN BadFields, f \in {"preflight", "postflight"} :
             metadata = (f :> BadFields[bad]) @@ ("cleanup" :> ListNode(<<1>>))

NextBuild ==
    \/ check_pandoc_exists
    \/ parse_cli_options
    \/ check_support_directory
    \/ load
    \/ build_run_lists_step

SpecBuild == InitBuild /\ [][NextBuild]_vars

-----------------------------------------------------------------------------
(* The whole build *)

\* a list of n well-formed items
ScriptList(n) == ListNode([j \in 1..n |-> ((j - 1) % Len(GoodItems)) + 1])

MainArgs ==
    { Args([NoPanzerKnown EXCEPT !.panzer_support = S_sup],
           [NoPandocKnown EXCEPT !.output = o], u) :
        o \in {<<>>, S_doc_pdf}, u \in {<<>>, <<S_dash, S_a_md>>} }
    \cup {Args(NoPanzerKnown, NoPandocKnown, <<S_dash>>)}
    \cup BadArgs

Init ==
    /\ InitState
    /\ cli \in MainArgs
    /\ stdin_bytes \in {<<>>, <<104, 105>>}
    /\ pandoc \in {<<>>, <<1, 12>>, <<1, 12, 1>>}
    /\ fs \in {FsBase, {S_sup}, {DEFAULT_SUPPORT_DIR}}
    /\ \/ metadata = <<>>
       \/ metadata = ("preflight" :> ScriptList(MaxScripts)) @@ ("cleanup" :> ScriptList(1))
       \/ metadata = ("postflight" :> ScriptList(1)) @@ ("postprocess" :> ScriptList(1))
                     @@ ("cleanup" :> ScriptList(MaxScripts))
       \/ metadata = ("preflight" :> BadFields[3]) @@ ("cleanup" :> ScriptList(1))

Next ==
    \/ check_pandoc_exists
    \/ parse_cli_options
    \/ check_support_directory
    \/ load
    \/ build_run_lists_step
    \/ make_json_message_step
    \/ run_scripts_enter
    \/ run_scripts_command
    \/ pipe_through_filter
    \/ doc_pandoc
    \/ pipe_through_postprocess
    \/ doc_write
    \/ except_clause
    \/ remove_temp
    \/ exit

Spec == Init /\ [][Next]_vars

\* builds of one command line whose metadata declares a list of cleanup
\* commands. main() is one sequential process and every child it waits for
\* ends: a step of run_scripts that can be taken is taken
InitCleanup ==
    /\ InitState
    /\ cli = Args([NoPanzerKnown EXCEPT !.panzer_support = S_sup], NoPandocKnown, <<>>)
    /\ stdin_bytes = <<>>
    /\ pandoc \in {<<1, 12>>, <<1, 12, 1>>}
    /\ fs = FsBase
    /\ \/ metadata = ("cleanup" :> ScriptList(MaxScripts))
       \/ metadata = ("preflight" :> ScriptList(1)) @@ ("cleanup" :> ScriptList(MaxScripts))

SpecCleanup ==
    InitCleanup /\ [][Next]_vars /\ WF_vars(run_scripts_enter) /\ WF_vars(run_scripts_command)

\* builds whose command line names filters, on metadata that declares more
\* filters and commands for the stages run_scripts executes
InitFrame ==
    /\ InitState
    /\ cli \in { Args([NoPanzerKnown EXCEPT !.panzer_support = S_sup],
                       [NoPandocKnown EXCEPT !.filter = f, !.output = o], <<>>) :
                   f \in SeqUpTo(FilterArgs, MaxFilters), o \in {<<>>, S_doc_tex} }
    /\ stdin_bytes = <<>>
    /\ pandoc = REQUIRE_PANDOC_ATLEAST
    /\ fs = FsBase
    /\ \/ metadata = <<>>
       \/ metadata = ("filter" :> ListNode(<<2>>)) @@ ("preflight" :> ScriptList(1))
                     @@ ("cleanup" :> ScriptList(MaxScripts))
       \/ metadata = ("filter" :> BadFields[2]) @@ ("cleanup" :> ScriptList(1))

SpecFrame == InitFrame /\ [][Next]_vars

-----------------------------------------------------------------------------
(* Builds with wrapped tools of several versions, missing ones included *)

PandocVersions ==
    {<<>>, <<0, 99, 9>>, <<1, 9>>, <<1, 12>>, <<1, 12, 0, 5>>, <<1, 12, 1>>, <<1, 12, 4, 2>>,
     <<1, 13>>, <<2, 0>>}

InitSetup ==
    /\ InitState
    /\ cli \in { Args([NoPanzerKnown EXCEPT !.panzer_support = S_sup], NoPandocKnown, u) :
                   u \in {<<>>, <<S_dash>>} }
    /\ stdin_bytes = <<104, 105>>
    /\ pandoc \in PandocVersions
    /\ fs = FsBase
    /\ \/ metadata = <<>>
       \/ metadata = ("preflight" :> ScriptList(1)) @@ ("cleanup" :> ScriptList(MaxScripts))

SpecSetup == InitSetup /\ [][Next]_vars

-----------------------------------------------------------------------------
(* The command resolver, on every choice of existing candidate paths *)

\* names of commands: plain, with an extension, absolute
ResolveNames == {S_f1, S_f_py, <<"/","b","/","f",".","p","y">>}

\* the places where resolve_path of panzer.py or of util.py looks for f.py
\* as a filter, under the working directory and under the support directories
ResolvePlaces ==
    LET under(d) == {join(join(d, FieldChars("filter")), S_f_py),
                     join(join(join(d, FieldChars("filter")), <<"f">>), S_f_py)}
    IN  {S_f_py, join(FieldChars("filter"), S_f_py),
         join(join(FieldChars("filter"), <<"f">>), S_f_py)}
        \cup under(S_panzer) \cup under(DEFAULT_SUPPORT_DIR) \cup under(S_sup)

\* resolve_path(filename, field, options) called on its own, with the
\* options and the filesystem of the build at the point where build_run_list
\* calls it (line 117). value is what the function of panzer.py returns, the
\* one the call reaches; util is what the function of util.py makes of the
\* same arguments
resolve_path_call ==
    /\ pc = "build_run_lists"
    /\ ret = <<>>
    /\ \E filename \in ResolveNames, field \in {"filter", "cleanup"} :
          ret' = << [filename |-> filename, field |-> field,
                     value |-> resolve_path(filename, field, options, fs),
                     util |-> util_resolve_path(filename, field, options, fs)] >>
    /\ UNCHANGED <<pc, exc, exit_status, inputs, fs, stdin_reads, tmp_written, removed,
                   pandoc_calls, dump_args_stdout, options, run_lists, json_message, log, attempts, started,
                   rs_i>>

InitResolve ==
    /\ InitState
    /\ cli \in { Args([NoPanzerKnown EXCEPT !.panzer_support = d], NoPandocKnown, <<>>) :
                   d \in {S_sup, DEFAULT_SUPPORT_DIR} }
    /\ stdin_bytes = <<>>
    /\ pandoc = REQUIRE_PANDOC_ATLEAST
    /\ metadata = <<>>
    /\ fs \in {FsBase \cup x : x \in SUBSET ResolvePlaces}

NextResolve ==
    \/ check_pandoc_exists
    \/ parse_cli_options
    \/ check_support_directory
    \/ load
    \/ resolve_path_call

SpecResolve == InitResolve /\ [][NextResolve]_vars

-----------------------------------------------------------------------------
(* The argument decoder, on every short list of elements of an args list *)

S_o == <<"o">>
S_toc_key == <<"t","o","c">>

\* elements of an args list: flags, a valued option, elements that are not
\* maps, maps of two keys and of none, a map whose value is a list
ArgElements ==
    << MetaMap(S_toc_key :> MetaBool(FALSE)),
       MetaMap(S_toc_key :> MetaBool(TRUE)),
       MetaMap(S_o :> MetaInlines(<<Str(<<"v">>), Space, Str(<<"w">>)>>)),
       MetaInlines(<<Str(<<"x">>)>>),
       MetaMap((S_toc_key :> MetaBool(TRUE)) @@ (S_o :> MetaBool(TRUE))),
       MetaMap(<<>>),
       MetaMap(S_o :> MetaList(<<>>)),
       MetaBool(TRUE) >>

ArgsList(idx) == [j \in DOMAIN idx |-> ArgElements[idx[j]]]

\* parse_args_metalist(arguments_list) called as build_run_list calls it
\* (line 129), on the content of the `args` field
parse_args_metalist_call ==
    /\ ret = <<>>
    /\ "args" \in DOMAIN metadata
    /\ ret' = <<parse_args_metalist(metadata["args"].c)>>
    /\ UNCHANGED <<pc, exc, exit_status, inputs, fs, stdin_reads, tmp_written, removed,
                   pandoc_calls, dump_args_stdout, options, run_lists, json_message, log, attempts, started,
                   rs_i>>

InitArgs ==
    /\ InitState
    /\ cli = Args(NoPanzerKnown, NoPandocKnown, <<>>)
    /\ stdin_bytes = <<>>
    /\ pandoc = REQUIRE_PANDOC_ATLEAST
    /\ fs = FsBase
    /\ \E idx \in SeqUpTo(DOMAIN ArgElements, MaxItems) :
          metadata = ("args" :> MetaList(ArgsList(idx)))

NextArgs == parse_args_metalist_call

SpecArgs == InitArgs /\ [][NextArgs]_vars

-----------------------------------------------------------------------------
(* Properties of the option resolver *)

\* parse_cli_options has returned its option set to main()
Returned == pc = "check_support_directory"

\* parse_cli_options has run past argparse
Parsed == cli.argparse = "ok" /\ \E i \in DOMAIN started : started[i] = "parse_cli_options"

\* the output path the command line names: '-' when no --output is given
OutputGiven == IF cli.pandoc_known.output # <<>> THEN cli.pandoc_known.output ELSE S_dash

\* C7: in every option set parse_cli_options returns, pdf_output is true if
\* and only if the extension of the output path, compared without regard to
\* case, is .pdf, whether or not a writer was given
C7_PdfOutputIffPdfExtension ==
    Returned =>
        /\ options.pandoc.output = OutputGiven
        /\ options.pandoc.pdf_output <=> (lower(splitext(OutputGiven)[2]) = S_pdf)

\* C7: an output doc.PDF with an explicit writer has pdf_output set
C7_Witness ==
    /\ Returned
    /\ cli.pandoc_known.output = S_doc_PDF
    /\ cli.pandoc_known.write = S_docx
    /\ options.pandoc.pdf_output

\* C8: the writer is the explicit one when given; else html for output '-';
\* else the table's entry for the lower-cased extension of the output path,
\* html when the table has none; doc<ext> yields the table's format for every
\* entry of the table; the writer is never empty
C8_WriteFormatPriority ==
    Returned =>
        LET w == cli.pandoc_known.write
            ext == lower(splitext(OutputGiven)[2])
        IN  /\ options.pandoc.write # <<>>
            /\ w # <<>> => options.pandoc.write = w
            /\ (w = <<>> /\ OutputGiven = S_dash) => options.pandoc.write = S_html
            /\ (w = <<>> /\ OutputGiven # S_dash /\ ext \in DOMAIN pandoc_writer_mapping)
                   => options.pandoc.write = pandoc_writer_mapping[ext]
            /\ (w = <<>> /\ OutputGiven # S_dash /\ ext \notin DOMAIN pandoc_writer_mapping)
                   => options.pandoc.write = S_html
            /\ \A e \in DOMAIN pandoc_writer_mapping :
                   (w = <<>> /\ cli.pandoc_known.output = S_doc \o e)
                       => options.pandoc.write = pandoc_writer_mapping[e]

\* C8: without an explicit writer, doc.lhs resolves to markdown+lhs
C8_Witness ==
    /\ Returned
    /\ cli.pandoc_known.write = <<>>
    /\ cli.pandoc_known.output = S_doc \o <<".","l","h","s">>
    /\ options.pandoc.write = <<"m","a","r","k","d","o","w","n","+","l","h","s">>

\* C10: with a '-' among the residual tokens, standard input is read once,
\* one temporary file holds exactly the bytes read, its path is recorded in
\* stdin_temp_file, and the tool is asked for the input files with every '-'
\* replaced by that path; without a '-', nothing is read and no file is made
C10_StdinCapture ==
    Parsed =>
        IF has_stdin(cli.unknown)
        THEN /\ stdin_reads = 1
             /\ Len(tmp_written) = 1
             /\ tmp_written[1].bytes = stdin_bytes
             /\ tmp_written[1].path = options.panzer.stdin_temp_file
             /\ options.panzer.stdin_temp_file # <<>>
             /\ LET argv == pandoc_calls[Len(pandoc_calls)]
                IN  /\ argv[2] = S_dump_args
                    /\ Len(argv) = 2 + Len(cli.unknown)
                    /\ \A i \in DOMAIN cli.unknown :
                          argv[2 + i] = IF cli.unknown[i] = S_dash
                                        THEN options.panzer.stdin_temp_file
                                        ELSE cli.unknown[i]
                    /\ \A i \in DOMAIN argv : argv[i] # S_dash
             /\ \A i \in DOMAIN options.pandoc.input : options.pandoc.input[i] # S_dash
             /\ \A i \in DOMAIN options.pandoc.options : options.pandoc.options[i] # S_dash
        ELSE /\ stdin_reads = 0
             /\ tmp_written = <<>>
             /\ options.panzer.stdin_temp_file = <<>>

\* C10: two '-' tokens and some bytes on standard input
C10_Witness ==
    /\ Returned
    /\ Len(cli.unknown) >= 2
    /\ cli.unknown[1] = S_dash
    /\ cli.unknown[2] = S_dash
    /\ stdin_bytes # <<>>
    /\ Len(tmp_written) = 1

-----------------------------------------------------------------------------
(* Properties of the run-list builder *)

\* build_run_lists has returned the run lists to main()
Built == pc = "make_json_message"

\* the commands the metadata declares for a stage, before any merge
Declared(field) ==
    IF field \in DOMAIN metadata
    THEN build_run_list(metadata, field, options, fs).run_list
    ELSE <<>>

\* a command with `write` as its element at position 1
WithWriter(command, write) == <<command[1], write>> \o SubSeq(command, 2, Len(command))

\* C1: the filter run list build_run_lists returns is the command-line
\* filters followed by the metadata's filters, each source in its order of
\* declaration, every command with the resolved writer inserted once at
\* position 1
C1_FilterRunListOrder ==
    Built =>
        LET C == cli.pandoc_known.filter
            M == Declared("filter")
            R == run_lists["filter"]
        IN  /\ options.pandoc.write # <<>>
            /\ Len(R) = Len(C) + Len(M)
            /\ \A i \in DOMAIN C : R[i] = WithWriter(C[i], options.pandoc.write)
            /\ \A j \in DOMAIN M : R[Len(C) + j] = WithWriter(M[j], options.pandoc.write)

\* C1: two different filters on the command line and two in the metadata
C1_Witness ==
    /\ Built
    /\ cli.pandoc_known.filter = << <<S_f1>>, <<S_f_py>> >>
    /\ Len(Declared("filter")) = 2
    /\ Declared("filter")[1] # Declared("filter")[2]
    /\ Len(run_lists["filter"]) = 4

\* C6: once build_run_lists has returned with pdf_output true, the
\* postprocess run list is empty whatever the metadata declares for it, and
\* the other stages have the lists they have without pdf_output
C6_PdfOutputSkipsPostprocess ==
    (Built /\ options.pandoc.pdf_output) =>
        /\ run_lists["postprocess"] = <<>>
        /\ \A f \in DOMAIN run_lists \ {"postprocess"} :
              run_lists[f] =
                  build_run_lists(metadata, default_run_lists,
                                  [options EXCEPT !.pandoc.pdf_output = FALSE], fs).run_lists[f]

\* C6: PDF output, a postprocess command declared, and a filter list kept
C6_Witness ==
    /\ Built
    /\ options.pandoc.pdf_output
    /\ Declared("postprocess") # <<>>
    /\ run_lists["postprocess"] = <<>>
    /\ run_lists["filter"] # <<>>

-----------------------------------------------------------------------------
(* Properties of the command resolver *)

\* the candidates in the order the specification gives them: the name,
\* <stage>/<name>, <stage>/<base>/<name>, <support>/<stage>/<name>,
\* <support>/<stage>/<base>/<name>, where base is the name without extension
SpecifiedCandidates(filename, field, opts) ==
    LET base == splitext(filename)[1]
    IN  << filename,
           join(FieldChars(field), filename),
           join(join(FieldChars(field), base), filename),
           join(join(opts.panzer.support, FieldChars(field)), filename),
           join(join(join(opts.panzer.support, FieldChars(field)), base), filename) >>

\* C9: resolve returns the first existing candidate among the name,
\* <stage>/<name>, <stage>/<base>/<name>, <support>/<stage>/<name> and
\* <support>/<stage>/<base>/<name>, and the name itself when none exists
C9_ResolveCandidateOrder ==
    ret # <<>> =>
        ret[1].value = FirstExisting(SpecifiedCandidates(ret[1].filename, ret[1].field, options),
                                     fs, ret[1].filename)

-----------------------------------------------------------------------------
(* Properties of the script executor and of main() *)

\* how many times x occurs in the sequence s
Count(s, x) == Cardinality({i \in DOMAIN s : s[i] = x})

\* the attempts of the cleanup stage, in order
IsCleanup(a) == a.kind = "cleanup"
CleanupAttempts == SelectSeq(attempts, IsCleanup)

\* C2: once a command run without force_run has suffered a fault other than
\* a spawn failure, no later command of its stage is attempted, the fault
\* stays in flight up to the exit of the process, and no step of main()
\* other than the cleanup stage and the end of the finally clause starts
C2_FaultAbortsBuild ==
    \A i \in DOMAIN attempts :
        (attempts[i].outcome.fault = "Exception" /\ ~attempts[i].force_run) =>
            /\ \A j \in (i+1)..Len(attempts) : attempts[j].kind = "cleanup"
            /\ \A k \in DOMAIN started :
                  started[k] = attempts[i].kind =>
                      \A m \in (k+1)..Len(started) : started[m] \in {"cleanup", "remove_temp"}
            /\ exc = "Exception"
            /\ exit_status \in {<<>>, <<1>>}

\* C2: the first of several preflight commands faulted, the build ended and
\* the cleanup stage ran a command
C2_Witness ==
    /\ pc = "done"
    /\ Len(run_lists["preflight"]) >= 2
    /\ attempts # <<>>
    /\ attempts[1].kind = "preflight"
    /\ attempts[1].outcome.fault = "Exception"
    /\ CleanupAttempts # <<>>

\* the records of level ERROR in a log
IsError(r) == r.level = "ERROR"
Errors(l) == SelectSeq(l, IsError)

\* a step in which run_scripts attempts a command that cannot be spawned
SpawnFailureStep ==
    /\ Len(attempts') = Len(attempts) + 1
    /\ attempts'[Len(attempts')].outcome.fault = "OSError"

\* C3: a command that cannot be spawned is logged with one error and
\* skipped: nothing is raised, and run_scripts goes on with the next command
\* of the list, or returns when there is none, with and without force_run
C3_SpawnFailureSkipped ==
    [][SpawnFailureStep =>
        LET a == attempts'[Len(attempts')]
        IN  /\ exc' = exc
            /\ Errors(log') = Errors(log)
                                \o <<LogRec("ERROR", basename(a.command[1]), "OSError")>>
            /\ IF a.index < Len(run_lists[a.kind])
               THEN pc' = a.kind /\ rs_i' = a.index + 1
               ELSE pc' = AfterScripts(a.kind) /\ rs_i' = 0]_vars

\* C3: without force_run, a command that could not be spawned is followed
\* by the next command of its stage, which completes
C3_Witness ==
    \E i \in DOMAIN attempts :
        /\ attempts[i].outcome.fault = "OSError"
        /\ ~attempts[i].force_run
        /\ i + 1 \in DOMAIN attempts
        /\ attempts[i+1].kind = attempts[i].kind
        /\ attempts[i+1].index = attempts[i].index + 1
        /\ attempts[i+1].outcome.fault = "none"

\* C4: under force_run the commands of the list are attempted in list
\* order, each once, whatever faults the earlier ones suffered; when the
\* stage is over every command has been attempted, and run_scripts has
\* returned to the statement that follows its call
CleanupInListOrder ==
    /\ Len(CleanupAttempts) <= Len(run_lists["cleanup"])
    /\ \A i \in DOMAIN CleanupAttempts :
          /\ CleanupAttempts[i].force_run
          /\ CleanupAttempts[i].index = i
          /\ CleanupAttempts[i].command = run_lists["cleanup"][i]
    /\ pc \in {"remove_temp", "exit", "done"} =>
          Len(CleanupAttempts) = Len(run_lists["cleanup"])
    /\ pc \in {"exit", "done"} => Count(started, "remove_temp") = 1

C4_ForceRunAttemptsAll ==
    /\ []CleanupInListOrder
    /\ (pc = "cleanup") ~>
          (pc = "remove_temp" /\ Len(CleanupAttempts) = Len(run_lists["cleanup"]))

\* C4: the first cleanup command faulted after its spawn, the second could
\* not be spawned, and the build went on to its end
C4_Witness ==
    /\ pc = "done"
    /\ Len(CleanupAttempts) >= 2
    /\ CleanupAttempts[1].outcome.fault = "Exception"
    /\ CleanupAttempts[2].outcome.fault = "OSError"

\* C5: in every build the cleanup stage is run once, after every other step
\* of main() and before the process exits, and the temporary file of
\* standard input, when one was created, is removed once, after the cleanup
\* stage and before the exit
C5_CleanupAndRemovalOnce ==
    /\ Count(started, "cleanup") <= 1
    /\ Len(removed) <= 1
    /\ exit_status # <<>> => pc = "done"
    /\ pc = "done" =>
          /\ Len(started) >= 2
          /\ started[Len(started) - 1] = "cleanup"
          /\ started[Len(started)] = "remove_temp"
          /\ Count(started, "cleanup") = 1
          /\ \A i \in DOMAIN attempts :
                attempts[i].kind = "cleanup" =>
                    \A j \in (i+1)..Len(attempts) : attempts[j].kind = "cleanup"
          /\ IF tmp_written # <<>>
             THEN /\ removed = <<tmp_written[1].path>>
                  /\ tmp_written[1].path \notin fs
             ELSE removed = <<>>

\* C5: a build that created the temporary file failed, ran a cleanup
\* command and removed the file
C5_Witness ==
    /\ pc = "done"
    /\ exit_status = <<1>>
    /\ tmp_written # <<>>
    /\ removed # <<>>
    /\ CleanupAttempts # <<>>

-----------------------------------------------------------------------------
(* Properties of the argument decoder *)

\* an element that is a map with exactly one key
SingleKeyMap(e) == e.t = "MetaMap" /\ Cardinality(DOMAIN e.c) = 1
KeyOf(e) == CHOOSE k \in DOMAIN e.c : TRUE

\* an element that yields an argument: a single-key map whose value is a
\* Bool or Inlines
Decodes(e) == SingleKeyMap(e) /\ e.c[KeyOf(e)].t \in {"MetaBool", "MetaInlines"}

\* the argument the specification gives for an element that decodes
SpecifiedArgument(e) ==
    IF e.c[KeyOf(e)].t = "MetaBool"
    THEN <<"-","-">> \o KeyOf(e)
    ELSE <<"-","-">> \o KeyOf(e) \o <<"=","\"">> \o stringify(e.c[KeyOf(e)].c) \o <<"\"">>

\* the arguments of the elements of l that decode, in the order of l
RECURSIVE SpecifiedArguments(_)
SpecifiedArguments(l) ==
    IF l = <<>> THEN <<>>
    ELSE (IF Decodes(Head(l)) THEN <<SpecifiedArgument(Head(l))>> ELSE <<>>)
         \o SpecifiedArguments(Tail(l))

\* C11: parse_args_metalist raises nothing; it logs one error for each
\* element that is not a single-key map and for each single-key map whose
\* value is neither Bool nor Inlines, logs nothing else, and returns one
\* argument for each other element, --<key> for Bool and --<key>="<text>"
\* for Inlines, in the order of the elements
C11_ArgsDecodingDegrades ==
    ret # <<>> =>
        LET l == metadata["args"].c
        IN  /\ ret[1].exc = "none"
            /\ ret[1].arguments = SpecifiedArguments(l)
            /\ Len(ret[1].log) = Cardinality({j \in DOMAIN l : ~Decodes(l[j])})
            /\ \A j \in DOMAIN ret[1].log : ret[1].log[j].level = "ERROR"

\* C11: a list whose first element is not a map and whose second is a flag
\* set to false was decoded to the one flag, with one error
C11_Witness ==
    /\ ret # <<>>
    /\ Len(metadata["args"].c) = 2
    /\ metadata["args"].c[1].t = "MetaInlines"
    /\ metadata["args"].c[2] = ArgElements[1]
    /\ ret[1].arguments = << <<"-","-","t","o","c">> >>
    /\ Len(ret[1].log) = 1

-----------------------------------------------------------------------------
(* More properties of the run-list builder *)

\* main() has run the step named x
HasRun(x) == \E i \in DOMAIN started : started[i] = x

\* an item of a stage's list that lacks its kind or content keys, or its
\* `run` field, or whose `run` is not of kind MetaInlines
MalformedItem(item) ==
    \/ "t" \notin DOMAIN item
    \/ "c" \notin DOMAIN item
    \/ "run" \notin DOMAIN item.c
    \/ item.c["run"].t # "MetaInlines"

\* the value of a stage's field that is not a list, or has a malformed item
MalformedStage(node) ==
    \/ node.t # "MetaList"
    \/ \E j \in DOMAIN node.c : MalformedItem(node.c[j])

\* C12: when the metadata of a stage is malformed, build_run_lists returns
\* normally with a warning logged, the stage has no command from the
\* metadata, and the stages whose metadata is well formed have the commands
\* it declares
C12_MalformedStageNonFatal ==
    \A f \in DOMAIN metadata :
        (HasRun("build_run_lists") /\ f # "filter" /\ MalformedStage(metadata[f])) =>
            /\ Built
            /\ exc = "none"
            /\ run_lists[f] = <<>>
            /\ \E i \in DOMAIN log : log[i].level = "WARNING"
            /\ \A g \in DOMAIN metadata \ {f, "filter", "postprocess"} :
                  ~MalformedStage(metadata[g]) => run_lists[g] = Declared(g)

-----------------------------------------------------------------------------
(* Properties of setup and of the exit status *)

\* version a is below version b: at the first position where they differ, a
\* has the smaller number, or a has ended
VersionBelow(a, b) ==
    \E i \in 1..Len(b) :
        /\ \A j \in 1..(i-1) : j <= Len(a) /\ a[j] = b[j]
        /\ (i > Len(a) \/ a[i] < b[i])

\* the wrapped tool is missing or older than required
SetupFault == pandoc = <<>> \/ VersionBelow(pandoc, REQUIRE_PANDOC_ATLEAST)

\* C13: on a setup fault no command of any stage is executed, the run lists
\* stay empty, main() goes from the check of the wrapped tool to the cleanup
\* stage, and the process exits with status 1
C13_SetupFaultRunsNothing ==
    (SetupFault /\ pc # "check_pandoc_exists") =>
        /\ attempts = <<>>
        /\ run_lists = default_run_lists
        /\ \A i \in DOMAIN started :
              started[i] \in {"check_pandoc_exists", "cleanup", "remove_temp"}
        /\ exit_status \in {<<>>, <<1>>}
        /\ pc = "done" => (exit_status = <<1>> /\ HasRun("cleanup"))

\* C13: a build with version 1.9 of the wrapped tool and metadata that
\* declares cleanup commands has exited
C13_Witness ==
    /\ pc = "done"
    /\ pandoc = <<1, 9>>
    /\ "cleanup" \in DOMAIN metadata
    /\ exit_status = <<1>>
    /\ HasRun("cleanup")

\* every step of main() from the check of the wrapped tool to the
\* postflight stage has finished without a fault that left it: the
\* postflight stage was reached, and no command of it raised
AllStepsFinished ==
    /\ HasRun("postflight")
    /\ \A i \in DOMAIN attempts :
          attempts[i].kind = "postflight" =>
              ~(attempts[i].outcome.fault = "Exception" /\ ~attempts[i].force_run)

\* C14: a build (not a request for the version) exits with status 0 when
\* every step through the postflight stage finished, and with status 1
\* otherwise; faults run_scripts recovers from do not count
C14_ExitStatus ==
    (pc = "done" /\ cli.argparse # "version") =>
        exit_status = IF AllStepsFinished THEN <<0>> ELSE <<1>>

-----------------------------------------------------------------------------
(* More properties of the option resolver *)

\* the sequence l without its elements that occur in the sequence gone,
\* the others in their order
RECURSIVE Without(_, _)
Without(l, gone) ==
    IF l = <<>> THEN <<>>
    ELSE (IF \E i \in DOMAIN gone : gone[i] = Head(l) THEN <<>> ELSE <<Head(l)>>)
         \o Without(Tail(l), gone)

\* the residual tokens the tool was asked about: its arguments after --dump-args
ResidualTokens == SubSeq(pandoc_calls[Len(pandoc_calls)], 3, Len(pandoc_calls[Len(pandoc_calls)]))

\* C15: the discovered input files are the lines the tool printed after the
\* first; the remaining options are the residual tokens without every token
\* equal to a discovered input file, the others in their order, so that no
\* discovered input file is among them
C15_PassthroughArgs ==
    Returned =>
        /\ dump_args_stdout # <<>>
        /\ options.pandoc.input = SubSeq(dump_args_stdout, 2, Len(dump_args_stdout))
        /\ options.pandoc.options = Without(ResidualTokens, options.pandoc.input)
        /\ \A p \in DOMAIN options.pandoc.options, i \in DOMAIN options.pandoc.input :
              options.pandoc.options[p] # options.pandoc.input[i]

\* C15: standard input and an option of the tool were given; the temporary
\* file was discovered as the input file and the option was kept
C15_Witness ==
    /\ Returned
    /\ cli.unknown = <<S_dash, S_toc>>
    /\ options.pandoc.input = <<options.panzer.stdin_temp_file>>
    /\ options.panzer.stdin_temp_file # <<>>
    /\ options.pandoc.options = <<S_toc>>

-----------------------------------------------------------------------------
(* Order of the stages and of the commands *)

\* the stages in the order of the specification
StageOrder == <<"preflight", "filter", "postprocess", "postflight", "cleanup">>
StageRank(x) == CHOOSE k \in DOMAIN StageOrder : StageOrder[k] = x
IsStage(x) == \E k \in DOMAIN StageOrder : StageOrder[k] = x

\* the stages that have started, in the order they started
StagesStarted == SelectSeq(started, IsStage)

\* stages start in the order of StageOrder, each once; a build that ends
\* with status 0 has gone through all of them; the commands attempted are
\* those of the stages in their order, and within a stage those of its list
\* from the first on, each once, none after one that aborted the stage
SequentialHistory ==
    /\ \A i, j \in DOMAIN StagesStarted :
          i < j => StageRank(StagesStarted[i]) < StageRank(StagesStarted[j])
    /\ (pc = "done" /\ exit_status = <<0>> /\ cli.argparse = "ok") => StagesStarted = StageOrder
    /\ \A i \in DOMAIN attempts :
          /\ HasRun(attempts[i].kind)
          /\ attempts[i].command = run_lists[attempts[i].kind][attempts[i].index]
          /\ attempts[i].index =
                IF i > 1 /\ attempts[i-1].kind = attempts[i].kind
                THEN attempts[i-1].index + 1 ELSE 1
          /\ i > 1 => StageRank(attempts[i-1].kind) <= StageRank(attempts[i].kind)
          /\ (i > 1 /\ attempts[i-1].kind = attempts[i].kind) =>
                ~(attempts[i-1].outcome.fault = "Exception" /\ ~attempts[i-1].force_run)

\* a step attempts at most one command, of the stage that started last, and
\* the attempt has reached its outcome when the step ends; a stage starts
\* in a step that attempts no command
OneCommandAtATime ==
    /\ Len(attempts') \in {Len(attempts), Len(attempts) + 1}
    /\ Len(attempts') = Len(attempts) + 1 =>
          /\ started' = started
          /\ StagesStarted # <<>>
          /\ attempts'[Len(attempts')].kind = StagesStarted[Len(StagesStarted)]
          /\ attempts'[Len(attempts')].outcome.fault \in {"none", "OSError", "Exception"}
          /\ SubSeq(attempts', 1, Len(attempts)) = attempts

\* C16: the stages run in the order preflight, filter, postprocess,
\* postflight, cleanup; commands are attempted one at a time, each command
\* of a list at most once and after the command before it has reached its
\* outcome, and none before the stage before has ended
C16_SequentialStages == []SequentialHistory /\ [][OneCommandAtATime]_vars

\* C16: a build that ended with status 0 after going through the five
\* stages, with two preflight commands and a cleanup command attempted
C16_Witness ==
    /\ pc = "done"
    /\ exit_status = <<0>>
    /\ StagesStarted = StageOrder
    /\ Len(attempts) >= 3
    /\ attempts[1].kind = "preflight"
    /\ attempts[2].kind = "preflight"
    /\ attempts[Len(attempts)].kind = "cleanup"

-----------------------------------------------------------------------------
(* Standard error of the commands *)

\* the records log_stderr has made, and the attempts whose child wrote to
\* its standard error
IsStderr(r) == r.level = "STDERR"
ProducedStderr(a) == a.outcome.child_stderr # <<>>

\* C17: the standard error of every attempted command whose child wrote
\* some is logged once, attributed to the base name of the command's
\* executable, whatever the outcome of the attempt and the exit status
C17_StderrLogged ==
    /\ Len(SelectSeq(log, IsStderr)) = Len(SelectSeq(attempts, ProducedStderr))
    /\ \A i \in DOMAIN SelectSeq(log, IsStderr) :
          i <= Len(SelectSeq(attempts, ProducedStderr)) =>
              SelectSeq(log, IsStderr)[i].who
                  = basename(SelectSeq(attempts, ProducedStderr)[i].command[1])

-----------------------------------------------------------------------------
(* The message sent to the commands *)

\* C18: every command attempted in a build is sent the same message, the
\* one made of the run lists and options of the build as they are when it
\* runs, so that the run lists inside the message hold the command itself
C18_SameEnvelope ==
    \A i \in DOMAIN attempts :
        /\ \A j \in DOMAIN attempts : attempts[j].message = attempts[i].message
        /\ attempts[i].message.run_lists = run_lists
        /\ attempts[i].message.options = options
        /\ \E k \in DOMAIN attempts[i].message.run_lists[attempts[i].kind] :
              attempts[i].message.run_lists[attempts[i].kind][k] = attempts[i].command

-----------------------------------------------------------------------------
(* Exit status of the commands *)

\* a step in which run_scripts attempts a command whose child exits with a
\* non-zero status
NonZeroExitStep ==
    /\ Len(attempts') = Len(attempts) + 1
    /\ attempts'[Len(attempts')].outcome.returncode # 0

\* C19: a child that exits with a non-zero status raises nothing and logs
\* no error, and run_scripts goes on with the next command of the list, or
\* returns when there is none, with and without force_run
C19_NonZeroExitCompletes ==
    [][NonZeroExitStep =>
        LET a == attempts'[Len(attempts')]
        IN  /\ exc' = exc
            /\ Errors(log') = Errors(log)
            /\ IF a.index < Len(run_lists[a.kind])
               THEN pc' = a.kind /\ rs_i' = a.index + 1
               ELSE pc' = AfterScripts(a.kind) /\ rs_i' = 0]_vars

\* C19: without force_run, a command whose child exited with status 1 was
\* followed by the next command of its stage, and the build ended with
\* status 0
C19_Witness ==
    /\ pc = "done"
    /\ exit_status = <<0>>
    /\ Len(attempts) >= 2
    /\ attempts[1].outcome.returncode = 1
    /\ ~attempts[1].force_run
    /\ attempts[2].kind = attempts[1].kind
    /\ attempts[2].index = 2

-----------------------------------------------------------------------------
(* What building the run lists and running the commands leave alone *)

\* build_run_lists leaves the options as they are; a step of run_scripts
\* leaves the options, the run lists and the envelope as they are
FrameStep ==
    /\ pc = "build_run_lists" => options' = options
    /\ pc \in ScriptStages =>
          /\ options' = options
          /\ run_lists' = run_lists
          /\ json_message' = json_message

\* once build_run_lists has been called, the filters of the options are those
\* of the command line, without a writer in them
FiltersKept ==
    HasRun("build_run_lists") => options.pandoc.filter = cli.pandoc_known.filter

\* every command was run as the run lists hold it, with the envelope main()
\* holds
RunAsBuilt ==
    \A i \in DOMAIN attempts :
        /\ attempts[i].command = run_lists[attempts[i].kind][attempts[i].index]
        /\ attempts[i].message = json_message

\* C20: build_run_lists and run_scripts leave the options unchanged: the
\* writer inserted into the commands seeded from the command line is not
\* inserted into the filters stored in the options; run_scripts changes
\* neither the run lists nor the envelope, so every command, of whatever
\* stage, is run with the command and the envelope main() still holds
C20_FrameOfBuildAndRun == [](FiltersKept /\ RunAsBuilt) /\ [][FrameStep]_vars

\* a finished build with a filter on the command line: the run list holds it
\* with the writer inserted, the options hold it without, and commands were
\* run
C20_Witness ==
    /\ exit_status # <<>>
    /\ cli.pandoc_known.filter # <<>>
    /\ run_lists["filter"] # <<>>
    /\ run_lists["filter"][1] = WithWriter(cli.pandoc_known.filter[1], options.pandoc.write)
    /\ options.pandoc.filter = cli.pandoc_known.filter
    /\ Len(attempts) >= 2

-----------------------------------------------------------------------------
(* The options of the tool itself, as parse_cli_options leaves them *)

\* parse_cli_options has been called on a command line argparse accepts
OptionsParsed == HasRun("parse_cli_options") /\ cli.argparse = "ok"

\* a support directory given on the command line is the one under which
\* resolve_path looks for its candidates 4 and 5; without one, the default is
SupportDirectoryUsed ==
    LET given == cli.panzer_known.panzer_support
        dir == IF given # <<>> THEN given ELSE DEFAULT_SUPPORT_DIR
        paths == resolve_path_candidates(S_f_py, "filter", options)
    IN  /\ paths[4] = join(join(dir, FieldChars("filter")), S_f_py)
        /\ paths[5] = join(join(join(dir, FieldChars("filter")), <<"f">>), S_f_py)

\* a verbosity given on the command line, 0 included, is the one recorded;
\* without one, the default 1 is
VerbosityRecorded ==
    options.panzer.verbose = IF cli.panzer_known.verbose # <<>>
                             THEN cli.panzer_known.verbose[1]
                             ELSE default_options.panzer.verbose

\* ---debug is recorded; without it, the default False is
DebugRecorded == options.panzer.debug = cli.panzer_known.debug

\* C21: the options parse_cli_options produces reflect the command line's
\* options of the tool: a support directory given is the one resolve_path
\* uses for its candidates 4 and 5, a verbosity given in 0..2 (0 included) is
\* the recorded verbosity, and options not given keep their defaults
C21_ToolOptionsReflectCommandLine ==
    OptionsParsed => SupportDirectoryUsed /\ VerbosityRecorded /\ DebugRecorded

=============================================================================
